---------------------------- MODULE Spec2Model ----------------------------
(***************************************************************************)
(* A model of ld-find-code-refs: the hunker (aggregateByPath, makeHunkReps, *)
(* buildHunksForFlag, truncateLine), the flag-key filter and the search     *)
(* that attributes flags to lines.                                          *)
(*                                                                          *)
(* Text is a sequence of integers.  A value c >= 0 is a validly encoded     *)
(* code point c; a value c < 0 is one byte that is not part of a valid      *)
(* UTF-8 sequence.  10 is '\n', 8230 is the ellipsis.                       *)
(***************************************************************************)
EXTENDS Integers, Sequences, FiniteSets, TLC

VARIABLES
    line,                 \* truncateLine: the argument
    truncated,            \* truncateLine: the outcome
    ctxLines,             \* the contextLines option
    fileLines,            \* buildHunksForFlag: fileSearchResultLines of the file
    refIdx,               \* buildHunksForFlag: how many flagReferences the loop has taken
    hunks,                \* buildHunksForFlag: hunks
    currentHunk,          \* buildHunksForFlag: currentHunk
    lastSeenLineNum,      \* buildHunksForFlag: lastSeenLineNum
    hunkStringBuilder,    \* buildHunksForFlag: the text in hunkStringBuilder
    numHunkedLines,       \* buildHunksForFlag: numHunkedLines
    pc,                   \* buildHunksForFlag: "loop", "returned" or "panic"
    g,                    \* makeReferenceHunksReps: the search results
    aggregatedSearchResults, \* makeReferenceHunksReps: the files of aggregateByPath
    fileIdx,              \* makeReferenceHunksReps: how many files the loop has taken
    numHunks,             \* makeReferenceHunksReps: numHunks
    shouldSuppressUnexpectedError, \* makeReferenceHunksReps
    reps,                 \* makeReferenceHunksReps: reps
    pcR,                  \* makeReferenceHunksReps: "start", "files", "returned",
                          \* "fatal" (log.Error.Fatalf) or "panic"
    dirFiles,             \* Scan: the text lines of the files under opts.Dir
    aliasOption,          \* Scan: opts.Aliases
    delimString,          \* Scan: delimString
    flags,                \* Scan: flags
    filteredFlags,        \* Scan: filteredFlags
    omittedFlags,         \* Scan: omittedFlags
    aliases,              \* Scan: aliases
    pcS,                  \* Scan: "upsert", "getFlags", "filter", "search", "report",
                          \* "done" (the report is built), "put", "prune", "returned",
                          \* "exit0" (os.Exit(0)), "fatal" (log.Error.Fatal) or "panic"
    firstRun,             \* what an earlier execution of makeReferenceHunksReps on
                          \* the same results returned
    isDryRun,             \* Scan: isDryRun
    ignoreServiceErrors,  \* Scan: ignoreServiceErrors
    branches,             \* the branches of the repository that the service lists
    remoteBranches,       \* the branches of the git remote
    gitBranch,            \* gitClient.GitBranch: the branch that is scanned
    requests,             \* the requests that Scan has sent to the service and to
                          \* the git remote, each with its answer, in order
    answer,               \* ld client: what client.Do meets for the PUT of a branch
    putErr,               \* ld client: what PutCodeReferenceBranch returned
    aliasSpec,            \* options: the Alias that IsValid is called on
    aliasErr              \* options: what Alias.IsValid returned

truncVars == <<line, truncated>>
flagVars == <<fileLines, refIdx, hunks, currentHunk, lastSeenLineNum,
              hunkStringBuilder, numHunkedLines, pc>>
reportVars == <<g, aggregatedSearchResults, fileIdx, numHunks,
                shouldSuppressUnexpectedError, reps, pcR>>

scanVars == <<dirFiles, aliasOption, delimString, flags, filteredFlags, omittedFlags,
              aliases, pcS>>

twiceVars == <<firstRun>>
runVars == <<isDryRun, ignoreServiceErrors, branches, remoteBranches, gitBranch, requests>>
clientVars == <<answer, putErr>>
optionVars == <<aliasSpec, aliasErr>>
restVars == <<twiceVars, runVars, clientVars, optionVars>>

vars == <<truncVars, ctxLines, flagVars, reportVars, scanVars, restVars>>

-----------------------------------------------------------------------------
(* Program constants *)

minFlagKeyLen == 3
maxFileCount == 10000
maxLineCharCount == 500
maxHunkCount == 25000
maxHunkedLinesPerFileAndFlagCount == 500

Newline == 10
Ellipsis == 8230
RuneError == 65533

-----------------------------------------------------------------------------
(* Bounds of the model *)

\* how many units beyond maxLineCharCount the lines given to truncateLine reach
MaxOver == 2
\* how many leading units of a line may be of another kind than the rest
MaxHead == 1
\* the line numbers 1..MaxLineNum of the small files, each absent, a context
\* line or a line with the flag
MaxLineNum == 8
\* the line numbers 1..MaxDupLineNum of the files whose list holds a line
\* number up to twice
MaxDupLineNum == 3

\* the longest first file in the small inputs of makeReferenceHunksReps
MaxRepLines == 4

\* the most flag keys of the project, and the most lines of the first file, in
\* the inputs of Scan
MaxFlags == 2
MaxScanLines == 2
\* the line numbers 1..MaxAliasLineNum of the files whose lines name aliases
MaxAliasLineNum == 4
\* the longest first file in the results that makeReferenceHunksReps is given twice
MaxTwiceLines == 3
\* the most branches that the service lists
MaxBranches == 3

-----------------------------------------------------------------------------
(* Text *)

Min(a, b) == IF a < b THEN a ELSE b
Max(a, b) == IF a > b THEN a ELSE b
Abs(x) == IF x < 0 THEN 0 - x ELSE x

\* number of bytes of one unit of text in UTF-8
UnitBytes(c) ==
    IF c < 0 THEN 1
    ELSE IF c < 128 THEN 1
    ELSE IF c < 2048 THEN 2
    ELSE IF c < 65536 THEN 3
    ELSE 4

\* len(s): the number of bytes of a string
RECURSIVE ByteLenUpTo(_, _)
ByteLenUpTo(s, n) ==
    IF n = 0 THEN 0
    ELSE IF n = 1 THEN UnitBytes(s[1])
    ELSE LET h == n \div 2
         IN  ByteLenUpTo(SubSeq(s, 1, h), h) + ByteLenUpTo(SubSeq(s, h + 1, n), n - h)

ByteLen(s) == ByteLenUpTo(s, Len(s))

\* []rune(s): an invalid byte decodes to the replacement character
ToRunes(s) == [i \in 1..Len(s) |-> IF s[i] < 0 THEN RuneError ELSE s[i]]

\* n copies of the unit c
Repeat(c, n) == [i \in 1..n |-> c]

-----------------------------------------------------------------------------
(* truncateLine *)

\* runes[0:n] of a slice of capacity cap: the elements beyond the length are
\* the zeroed rest of the allocation; beyond the capacity the slice expression
\* panics.
SliceTo(runes, n, capacity) ==
    IF n <= Len(runes) THEN [panic |-> FALSE, runes |-> SubSeq(runes, 1, n)]
    ELSE IF n <= capacity
         THEN [panic |-> FALSE, runes |-> runes \o Repeat(0, n - Len(runes))]
         ELSE [panic |-> TRUE, runes |-> <<>>]

\* truncateLine(line), the rune slice of the conversion having the given
\* capacity (>= its length; the runtime rounds the allocation up).
truncateLine(s, capacity) ==
    IF ByteLen(s) > maxLineCharCount
    THEN LET cut == SliceTo(ToRunes(s), maxLineCharCount, capacity)
         IN  IF cut.panic THEN [panic |-> TRUE, text |-> <<>>]
             ELSE [panic |-> FALSE, text |-> Append(cut.runes, Ellipsis)]
    ELSE [panic |-> FALSE, text |-> s]

\* The capacities the conversion []rune(s) can come with: the exact length, or
\* an allocation rounded up that reaches maxLineCharCount.
RuneCaps(s) == {Len(s), Max(Len(s), maxLineCharCount)}

-----------------------------------------------------------------------------
(* The file's line list and the flag index *)

\* A searchResultLine is [Path, LineNum, LineText, FlagKeys]; FlagKeys maps
\* each flag key found on the line to the aliases that matched.
EmptyMap == [k \in {} |-> <<>>]

\* the text of source line n in the inputs of the model: one character that
\* tells the line
LineTextOf(n) == <<n + 64>>

SearchResultLine(path, n, flagKeys) ==
    [Path |-> path, LineNum |-> n, LineText |-> LineTextOf(n), FlagKeys |-> flagKeys]

\* fsr.flagReferenceMap[key] as addFlagReference builds it: the positions, in
\* the list of the file, of the lines that have the key in FlagKeys
FlagReferences(lines, key) ==
    LET Has(i) == key \in DOMAIN lines[i].FlagKeys
    IN  SelectSeq([i \in 1..Len(lines) |-> i], Has)

\* the keys of fsr.flagReferenceMap
ReferencedFlags(lines) == UNION { DOMAIN lines[i].FlagKeys : i \in 1..Len(lines) }

-----------------------------------------------------------------------------
(* buildHunksForFlag *)

\* helpers.Dedupe: the list without its repeated elements, first occurrences kept
RECURSIVE Dedupe(_)
Dedupe(s) ==
    IF s = <<>> THEN <<>>
    ELSE LET front == Dedupe(SubSeq(s, 1, Len(s) - 1))
             last == s[Len(s)]
         IN  IF \E i \in 1..Len(front) : front[i] = last THEN front
             ELSE Append(front, last)

initHunk(projKey, flagKey) ==
    [ProjKey |-> projKey, FlagKey |-> flagKey, Aliases |-> <<>>,
     StartingLineNumber |-> 0, Lines |-> <<>>]

\* The comparison that decides whether a line reached by the backward seek
\* belongs to the previous hunk.
OverlapsStrict(lineNum, lastSeen) == lineNum < lastSeen
Overlaps(lineNum, lastSeen) == lineNum <= lastSeen

\* The backward seek: for i := 0; i < ctxLines; i++.  ptr is a position of the
\* list, ptr.Prev() == nil at position 1.
RECURSIVE SeekBack(_, _, _, _, _, _, _)
SeekBack(lines, C, lastSeen, i, ptr, numBefore, app) ==
    IF i >= C THEN [ptr |-> ptr, numCtxLinesBeforeFlagRef |-> numBefore,
                    appendToPreviousHunk |-> app]
    ELSE LET p2 == IF ptr > 1 THEN ptr - 1 ELSE ptr
             n2 == IF ptr > 1 THEN numBefore + 1 ELSE numBefore
             a2 == app \/ Overlaps(lines[p2].LineNum, lastSeen)
         IN  SeekBack(lines, C, lastSeen, i + 1, p2, n2, a2)

\* The guard of the forward walk: is the line new for this flag?
IsNewLine(lineNum, lastSeen) == lineNum > lastSeen

\* The number of iterations of the forward walk.
ForwardStepsOneMore(numCtxLinesBeforeFlagRef, C) == numCtxLinesBeforeFlagRef + 1 + C + 1
ForwardSteps(numCtxLinesBeforeFlagRef, C) == numCtxLinesBeforeFlagRef + 1 + C

\* The forward walk: for i := 0; i < numCtxLinesBeforeFlagRef+1+ctxLines; i++.
\* w holds ptr, the builder's text, lastSeenLineNum, numHunkedLines and
\* currentHunk.Aliases.
RECURSIVE SeekForward(_, _, _, _, _)
SeekForward(lines, flag, i, steps, w) ==
    IF i >= steps THEN w
    ELSE LET l == lines[w.ptr]
             fresh == IsNewLine(l.LineNum, w.lastSeen)
             cut == truncateLine(l.LineText, Len(l.LineText))
             w2 == [ptr |-> IF w.ptr < Len(lines) THEN w.ptr + 1 ELSE w.ptr,
                    sb |-> IF fresh THEN w.sb \o cut.text \o <<Newline>> ELSE w.sb,
                    lastSeen |-> IF fresh THEN l.LineNum ELSE w.lastSeen,
                    num |-> IF fresh THEN w.num + 1 ELSE w.num,
                    aliases |-> IF fresh /\ flag \in DOMAIN l.FlagKeys
                                THEN w.aliases \o l.FlagKeys[flag] ELSE w.aliases,
                    panic |-> w.panic \/ (fresh /\ cut.panic)]
         IN  SeekForward(lines, flag, i + 1, steps, w2)

\* The test after each reference that ends the loop early.
CapReachedNever(num) == FALSE
CapReachedAtMinLen(num) == num > minFlagKeyLen
CapReached(num) == num > maxHunkedLinesPerFileAndFlagCount

\* The builder's text before the forward walk: hunkStringBuilder.Reset() when
\* a new hunk starts, the text of the previous hunk otherwise.
BuilderAlwaysReset(app, sb) == <<>>
BuilderAtStart(app, sb) == IF app THEN sb ELSE <<>>

\* One iteration of the loop of buildHunksForFlag, for the reference at
\* position ref of the list.  st is the state of the loop; previousHunk is the
\* last element of st.hunks (nil when there is none).
HunkRef(projKey, flag, lines, C, st, ref) ==
    LET back == SeekBack(lines, C, st.lastSeenLineNum, 0, ref, 0, FALSE)
        app == back.appendToPreviousHunk
        cur0 == IF app THEN st.currentHunk
                ELSE [initHunk(projKey, flag) EXCEPT
                        !.StartingLineNumber = lines[back.ptr].LineNum]
        fwd == SeekForward(lines, flag, 0, ForwardSteps(back.numCtxLinesBeforeFlagRef, C),
                           [ptr |-> back.ptr,
                            sb |-> BuilderAtStart(app, st.hunkStringBuilder),
                            lastSeen |-> st.lastSeenLineNum,
                            num |-> st.numHunkedLines,
                            aliases |-> cur0.Aliases,
                            panic |-> FALSE])
        cur1 == [cur0 EXCEPT !.Aliases = fwd.aliases]
        cur2 == [cur1 EXCEPT !.Lines = fwd.sb, !.Aliases = Dedupe(cur1.Aliases)]
        n == Len(st.hunks)
    IN  IF fwd.panic \/ (app /\ n = 0)
        THEN [st EXCEPT !.pc = "panic"]
        ELSE [hunks |-> IF app THEN [st.hunks EXCEPT ![n].Lines = fwd.sb]
                        ELSE Append(st.hunks, cur2),
              currentHunk |-> IF app THEN cur1 ELSE cur2,
              lastSeenLineNum |-> fwd.lastSeen,
              hunkStringBuilder |-> fwd.sb,
              numHunkedLines |-> fwd.num,
              pc |-> IF CapReached(fwd.num) THEN "returned" ELSE "loop"]

\* the state of the loop before the first reference
HunkStart ==
    [hunks |-> <<>>, currentHunk |-> initHunk("", <<>>), lastSeenLineNum |-> -1,
     hunkStringBuilder |-> <<>>, numHunkedLines |-> 0, pc |-> "loop"]

\* The loop over refs[lo..hi], left as soon as an iteration returns.
RECURSIVE HunkLoop(_, _, _, _, _, _, _, _)
HunkLoop(projKey, flag, lines, C, refs, st, lo, hi) ==
    IF lo > hi \/ st.pc # "loop" THEN st
    ELSE IF lo = hi THEN HunkRef(projKey, flag, lines, C, st, refs[lo])
    ELSE LET mid == (lo + hi) \div 2
         IN  HunkLoop(projKey, flag, lines, C, refs,
                      HunkLoop(projKey, flag, lines, C, refs, st, lo, mid),
                      mid + 1, hi)

\* buildHunksForFlag(projKey, flag, path, flagReferences, ctxLines): the loop
\* state at its return; .hunks is the result, .pc = "panic" a run-time panic.
buildHunksForFlag(projKey, flag, lines, flagReferences, C) ==
    HunkLoop(projKey, flag, lines, C, flagReferences, HunkStart, 1, Len(flagReferences))

-----------------------------------------------------------------------------
(* aggregateByPath, makeHunkReps and makeReferenceHunksReps *)

\* addSearchResult ends the program when a line number of a path goes down
OutOfOrderOrEqual(results) ==
    \E i \in 2..Len(results) :
        /\ results[i].Path = results[i - 1].Path
        /\ results[i - 1].LineNum >= results[i].LineNum
OutOfOrder(results) ==
    \E i \in 2..Len(results) :
        /\ results[i].Path = results[i - 1].Path
        /\ results[i - 1].LineNum > results[i].LineNum

\* the positions where aggregateByPath starts a file
PathStarts(results) ==
    { i \in 1..Len(results) : i = 1 \/ results[i].Path # results[i - 1].Path }

RECURSIVE SortedSeq(_)
SortedSeq(S) ==
    IF S = {} THEN <<>>
    ELSE LET m == CHOOSE x \in S : \A y \in S : x <= y
         IN  <<m>> \o SortedSeq(S \ {m})

\* one fileSearchResults
FileSearchResults(path, lines) ==
    [path |-> path,
     flagReferenceMap |-> [key \in ReferencedFlags(lines) |-> FlagReferences(lines, key)],
     fileSearchResultLines |-> lines]

aggregateByPath(results) ==
    LET starts == SortedSeq(PathStarts(results))
        End(k) == IF k = Len(starts) THEN Len(results) ELSE starts[k + 1] - 1
    IN  [k \in 1..Len(starts) |->
            FileSearchResults(results[starts[k]].Path, SubSeq(results, starts[k], End(k)))]

\* the orders in which a range over a map can visit its keys
FlagOrders(keys) ==
    { o \in [1..Cardinality(keys) -> keys] :
        \A i, j \in 1..Cardinality(keys) : i # j => o[i] # o[j] }

\* makeHunkReps with its range over flagReferenceMap taken in the given order
RECURSIVE makeHunkReps(_, _, _, _, _)
makeHunkReps(projKey, fsr, C, order, n) ==
    IF n = 0 THEN [hunks |-> <<>>, panic |-> FALSE]
    ELSE LET before == makeHunkReps(projKey, fsr, C, order, n - 1)
             flagHunks == buildHunksForFlag(projKey, order[n], fsr.fileSearchResultLines,
                                            fsr.flagReferenceMap[order[n]], C)
         IN  IF before.panic \/ flagHunks.pc = "panic"
             THEN [hunks |-> before.hunks, panic |-> TRUE]
             ELSE [hunks |-> before.hunks \o flagHunks.hunks, panic |-> FALSE]

HunkCapPassedAtFirstHunk(n) == n > 0
HunkCapPassed(n) == n > maxHunkCount

-----------------------------------------------------------------------------
(* filterShortFlagKeys, findReferencedFlags and the search of Scan *)

KeepsFlagFromTwo(flag) == ByteLen(flag) >= minFlagKeyLen - 1
KeepsFlag(flag) == ByteLen(flag) >= minFlagKeyLen

\* filterShortFlagKeys(flags): the loop over flags[1..n]
RECURSIVE filterShortFlagKeysUpTo(_, _)
filterShortFlagKeysUpTo(fs, n) ==
    IF n = 0 THEN [filtered |-> <<>>, omitted |-> <<>>]
    ELSE LET before == filterShortFlagKeysUpTo(fs, n - 1)
         IN  IF KeepsFlag(fs[n])
             THEN [before EXCEPT !.filtered = Append(@, fs[n])]
             ELSE [before EXCEPT !.omitted = Append(@, fs[n])]

filterShortFlagKeys(fs) == filterShortFlagKeysUpTo(fs, Len(fs))

\* regexp.QuoteMeta(pat) matches somewhere in text
Contains(text, pat) ==
    \E i \in 1..(Len(text) - Len(pat) + 1) : SubSeq(text, i, i + Len(pat) - 1) = pat

\* [delims]pat[delims] matches somewhere in text
ContainsDelimited(text, pat, delims) ==
    \E i \in 2..(Len(text) - Len(pat)) :
        /\ \E d \in 1..Len(delims) : text[i - 1] = delims[d]
        /\ SubSeq(text, i, i + Len(pat) - 1) = pat
        /\ \E d \in 1..Len(delims) : text[i + Len(pat)] = delims[d]

\* findReferencedFlags(ref, aliases, delims)
findReferencedFlags(ref, als, delims) ==
    LET KeyMatches(key) == IF Len(delims) > 0 THEN ContainsDelimited(ref, key, delims)
                           ELSE Contains(ref, key)
        AliasMatches(alias) == Contains(ref, alias)
        found == { key \in DOMAIN als :
                     KeyMatches(key) \/ \E a \in 1..Len(als[key]) : AliasMatches(als[key][a]) }
    IN  [key \in found |-> SelectSeq(als[key], AliasMatches)]

\* generateAliases(filteredFlags, opts.Aliases, dir): a list of aliases for
\* each of the flags given; the option "upper" gives a flag its upper case
Upper(key) == [i \in 1..Len(key) |-> IF key[i] >= 97 /\ key[i] <= 122 THEN key[i] - 32 ELSE key[i]]

RangeOf(seq) == { seq[i] : i \in 1..Len(seq) }

generateAliases(fs, option) ==
    [key \in RangeOf(fs) |-> IF option = "upper" THEN <<Upper(key)>> ELSE <<>>]

\* The search of findReferences in one file: the lines that hold a flag key
\* or an alias are hits, given the flags that findReferencedFlags finds on
\* them; the lines within C of a hit come with them, with no flags.
SearchFile(path, text, als, C, delims) ==
    LET Terms == DOMAIN als \cup UNION { RangeOf(als[key]) : key \in DOMAIN als }
        Hit(n) == \E term \in Terms : Contains(text[n], term)
        Near(r) == \E m \in Max(1, r.LineNum - Max(C, 0)) ..
                            Min(Len(text), r.LineNum + Max(C, 0)) : Hit(m)
    IN  SelectSeq([n \in 1..Len(text) |->
                     [Path |-> path, LineNum |-> n, LineText |-> text[n],
                      FlagKeys |-> IF Hit(n) THEN findReferencedFlags(text[n], als, delims)
                                   ELSE EmptyMap]],
                  Near)

\* findReferences: the files are searched in the given order
RECURSIVE findReferences(_, _, _, _, _, _)
findReferences(files, order, als, C, delims, n) ==
    IF n = 0 THEN <<>>
    ELSE findReferences(files, order, als, C, delims, n - 1) \o
         SearchFile(files[order[n]].path, files[order[n]].text, als, C, delims)

\* sort.Sort(b.SearchResults): by path, then by line number
PathOrder == <<"a.go", "b.go">>

RECURSIVE SortResults(_, _)
SortResults(results, n) ==
    IF n = 0 THEN <<>>
    ELSE LET OfPath(r) == r.Path = PathOrder[n]
             mine == SelectSeq(results, OfPath)
             nums == SortedSeq({ mine[i].LineNum : i \in 1..Len(mine) })
         IN  SortResults(results, n - 1) \o
             [j \in 1..Len(nums) |->
                mine[CHOOSE i \in 1..Len(mine) : mine[i].LineNum = nums[j]]]

\* the orders in which makeHunkReps can visit the flags of each of the files
FlagOrdersOf(files) ==
    LET all == UNION { FlagOrders(DOMAIN files[k].flagReferenceMap) : k \in 1..Len(files) }
    IN  { o \in [1..Len(files) -> all] :
            \A k \in 1..Len(files) : o[k] \in FlagOrders(DOMAIN files[k].flagReferenceMap) }

\* the loop of makeReferenceHunksReps over files[1..n]
RECURSIVE HunkFiles(_, _, _, _, _)
HunkFiles(projKey, files, C, orders, n) ==
    IF n = 0
    THEN [reps |-> <<>>, numHunks |-> 0, shouldSuppressUnexpectedError |-> FALSE,
          halted |-> FALSE, panic |-> FALSE]
    ELSE LET st == HunkFiles(projKey, files, C, orders, n - 1)
             made == makeHunkReps(projKey, files[n], C, orders[n], Len(orders[n]))
         IN  IF st.halted \/ st.panic THEN st
             ELSE IF HunkCapPassed(st.numHunks) THEN [st EXCEPT !.halted = TRUE]
             ELSE IF made.panic THEN [st EXCEPT !.panic = TRUE]
             ELSE IF Len(made.hunks) = 0 /\ ~st.shouldSuppressUnexpectedError
                  THEN [st EXCEPT !.shouldSuppressUnexpectedError = TRUE]
                  ELSE [st EXCEPT !.numHunks = @ + Len(made.hunks),
                                  !.reps = Append(@, [Path |-> files[n].path,
                                                      Hunks |-> made.hunks])]

-----------------------------------------------------------------------------
(* Specification of truncateLine alone *)

SampleUnits == {97, 233, 8364, 128512, -255}

\* lengths around the points where a run of units of one width crosses the limit
TruncLens ==
    (0..MaxOver) \cup
    { maxLineCharCount \div w + d : w \in 1..4, d \in (0 - MaxOver)..MaxOver }

TruncInputs ==
    { Repeat(h, k) \o Repeat(t, n) :
        h \in SampleUnits, k \in 0..MaxHead, t \in SampleUnits, n \in TruncLens }

NoOutcome == [kind |-> "none", text |-> <<>>]

\* the parts of the state a specification does not use
IdleTruncate ==
    /\ line = <<>>
    /\ truncated = NoOutcome

IdleFlag ==
    /\ fileLines = <<>>
    /\ refIdx = 0
    /\ hunks = <<>>
    /\ currentHunk = initHunk("", <<>>)
    /\ lastSeenLineNum = -1
    /\ hunkStringBuilder = <<>>
    /\ numHunkedLines = 0
    /\ pc = "idle"

IdleReport ==
    /\ g = <<>>
    /\ aggregatedSearchResults = <<>>
    /\ fileIdx = 0
    /\ numHunks = 0
    /\ shouldSuppressUnexpectedError = FALSE
    /\ reps = <<>>
    /\ pcR = "idle"

IdleTwice == firstRun = [returned |-> FALSE, reps |-> <<>>]

IdleRun ==
    /\ isDryRun = FALSE
    /\ ignoreServiceErrors = FALSE
    /\ branches = <<>>
    /\ remoteBranches = {}
    /\ gitBranch = [refsHeads |-> FALSE, short |-> ""]
    /\ requests = <<>>

IdleClient ==
    /\ answer = [kind |-> "none"]
    /\ putErr = "none"

IdleOption ==
    /\ aliasSpec = [Type |-> ""]
    /\ aliasErr = "none"

IdleRest == IdleTwice /\ IdleRun /\ IdleClient /\ IdleOption

IdleScan ==
    /\ dirFiles = <<>>
    /\ aliasOption = "none"
    /\ delimString = <<>>
    /\ flags = <<>>
    /\ filteredFlags = <<>>
    /\ omittedFlags = <<>>
    /\ aliases = EmptyMap
    /\ pcS = "idle"

InitTruncate ==
    /\ line \in TruncInputs
    /\ truncated = NoOutcome
    /\ ctxLines = 0
    /\ IdleFlag
    /\ IdleReport
    /\ IdleScan
    /\ IdleRest

Truncate ==
    /\ truncated.kind = "none"
    /\ \E capacity \in RuneCaps(line) :
         LET r == truncateLine(line, capacity)
         IN  truncated' = IF r.panic THEN [kind |-> "panic", text |-> <<>>]
                          ELSE [kind |-> "ok", text |-> r.text]
    /\ UNCHANGED <<scanVars, line, ctxLines, flagVars, reportVars>>
    /\ UNCHANGED restVars

NextTruncate == Truncate

SpecTruncate == InitTruncate /\ [][NextTruncate]_vars

-----------------------------------------------------------------------------
(* Specification of buildHunksForFlag for one file and one flag, one action *)
(* for each iteration of its loop                                           *)

ProjKeyF == "proj"
FlagF == <<102, 108, 103>>
PathF == "a.go"

\* the values the contextLines option can have
CtxRange == -1..5

FlagMapF == [k \in {FlagF} |-> <<>>]

\* two aliases of the flag:  FLG  Flg
AliasA == <<70, 76, 71>>
AliasB == <<70, 108, 103>>

\* The list of a file from marks: marks[n] is the sequence of the records
\* with line number n, "m" for a record with the flag found by its key, "a",
\* "b", "ab" for one with the flag found by these aliases, "c" for one without.
RECURSIVE LinesOfMarks(_, _)
LinesOfMarks(marks, n) ==
    IF n = 0 THEN <<>>
    ELSE LinesOfMarks(marks, n - 1) \o
         [j \in 1..Len(marks[n]) |->
            SearchResultLine(PathF, n,
                IF marks[n][j] = "m" THEN FlagMapF
                ELSE IF marks[n][j] = "a" THEN [k \in {FlagF} |-> <<AliasA>>]
                ELSE IF marks[n][j] = "b" THEN [k \in {FlagF} |-> <<AliasB>>]
                ELSE IF marks[n][j] = "ab" THEN [k \in {FlagF} |-> <<AliasA, AliasB>>]
                ELSE EmptyMap)]

Pat1 == {<<>>, <<"c">>, <<"m">>}
Pat2 == Pat1 \cup {<<"c", "c">>, <<"c", "m">>, <<"m", "c">>, <<"m", "m">>}

PatAlias == {<<>>, <<"c">>, <<"m">>, <<"a">>, <<"b">>, <<"ab">>}

\* short files whose lines name the flag by its aliases
AliasFiles == { LinesOfMarks(marks, MaxAliasLineNum) : marks \in [1..MaxAliasLineNum -> PatAlias] }

SmallFiles == { LinesOfMarks(marks, MaxLineNum) : marks \in [1..MaxLineNum -> Pat1] }
DupFiles == { LinesOfMarks(marks, MaxDupLineNum) : marks \in [1..MaxDupLineNum -> Pat2] }

\* a long file with the flag on every line
BigDense ==
    [n \in 1..(maxHunkedLinesPerFileAndFlagCount + MaxOver + 1) |->
        SearchResultLine(PathF, n, FlagMapF)]

\* a long file with the flag on every seventh line
SparseCount == maxHunkedLinesPerFileAndFlagCount \div 5 + 1
SparseMatches == { 7 * j - 3 : j \in 1..SparseCount }
BigSparse(C) ==
    LET Near(r) == \E m \in SparseMatches : r.LineNum - m <= C /\ m - r.LineNum <= C
    IN  SelectSeq([n \in 1..(7 * SparseCount) |->
                     SearchResultLine(PathF, n,
                        IF n \in SparseMatches THEN FlagMapF ELSE EmptyMap)],
                  Near)

LoopState ==
    [hunks |-> hunks, currentHunk |-> currentHunk, lastSeenLineNum |-> lastSeenLineNum,
     hunkStringBuilder |-> hunkStringBuilder, numHunkedLines |-> numHunkedLines,
     pc |-> pc]

SetLoopState(st) ==
    /\ hunks' = st.hunks
    /\ currentHunk' = st.currentHunk
    /\ lastSeenLineNum' = st.lastSeenLineNum
    /\ hunkStringBuilder' = st.hunkStringBuilder
    /\ numHunkedLines' = st.numHunkedLines
    /\ pc' = st.pc

InitFlagWith(files) ==
    /\ ctxLines \in CtxRange
    /\ fileLines \in files
    /\ refIdx = 0
    /\ hunks = HunkStart.hunks
    /\ currentHunk = HunkStart.currentHunk
    /\ lastSeenLineNum = HunkStart.lastSeenLineNum
    /\ hunkStringBuilder = HunkStart.hunkStringBuilder
    /\ numHunkedLines = HunkStart.numHunkedLines
    /\ pc = HunkStart.pc
    /\ IdleTruncate
    /\ IdleReport
    /\ IdleScan
    /\ IdleRest

\* the files of a few lines
InitFlag == InitFlagWith(SmallFiles \cup DupFiles \cup AliasFiles)

\* the same and the long files, on which the cap of the lines of a flag is reached
InitFlagCap == InitFlagWith(SmallFiles \cup DupFiles \cup AliasFiles \cup {BigDense, BigSparse(ctxLines)})

\* one iteration of the loop over flagReferences
FlagRef ==
    /\ pc = "loop"
    /\ LET refs == FlagReferences(fileLines, FlagF)
       IN  /\ refIdx < Len(refs)
           /\ SetLoopState(HunkRef(ProjKeyF, FlagF, fileLines, ctxLines, LoopState,
                                   refs[refIdx + 1]))
    /\ refIdx' = refIdx + 1
    /\ UNCHANGED <<scanVars, truncVars, ctxLines, fileLines, reportVars>>
    /\ UNCHANGED restVars

\* the return after the last reference
FlagReturn ==
    /\ pc = "loop"
    /\ refIdx = Len(FlagReferences(fileLines, FlagF))
    /\ pc' = "returned"
    /\ UNCHANGED <<scanVars, truncVars, ctxLines, fileLines, refIdx, hunks, currentHunk,
                   lastSeenLineNum, hunkStringBuilder, numHunkedLines, reportVars>>
    /\ UNCHANGED restVars

NextFlag == FlagRef \/ FlagReturn

SpecFlag == InitFlag /\ [][NextFlag]_vars

SpecFlagCap == InitFlagCap /\ [][NextFlag]_vars

-----------------------------------------------------------------------------
(* Specification of makeReferenceHunksReps: one action for aggregateByPath, *)
(* one for each turn of the loop over the files                             *)

FlagG == <<97, 98, 99, 100>>
FlagH == <<104, 105, 106>>
PathA == "a.go"
PathB == "b.go"

\* What the search found on a line: "" nothing, "f" FlagF, "g" FlagG, "fg"
\* both, "x" a hit of the search to which findReferencedFlags gives no flag;
\* "fgh" is a line that names three flags.
MarksR == {"", "f", "g", "fg", "x"}

KeysOfMark(mark) ==
    [k \in (IF mark \in {"f", "fg", "fgh"} THEN {FlagF} ELSE {}) \cup
           (IF mark \in {"g", "fg", "fgh"} THEN {FlagG} ELSE {}) \cup
           (IF mark = "fgh" THEN {FlagH} ELSE {}) |-> <<>>]

\* The results of the search for one file: the lines with a hit and the
\* lines within C of one, in line order.
ResultsOfFile(path, marks, C) ==
    LET Near(r) == \E m \in Max(1, r.LineNum - Max(C, 0)) ..
                             Min(Len(marks), r.LineNum + Max(C, 0)) : marks[m] # ""
    IN  SelectSeq([n \in 1..Len(marks) |-> SearchResultLine(path, n, KeysOfMark(marks[n]))],
                  Near)

SecondFiles == {<<>>, <<"f">>, <<"x">>, <<"", "g">>}

SmallResults(C) ==
    { ResultsOfFile(PathA, ma, C) \o ResultsOfFile(PathB, mb, C) :
        ma \in [1..MaxRepLines -> MarksR], mb \in SecondFiles }

\* a first file with FlagF on every line, too many for the cap of one flag,
\* and FlagG on its first and last line
CappedLen == maxHunkedLinesPerFileAndFlagCount + MaxOver + 1
CappedResults(C) ==
    ResultsOfFile(PathA, [n \in 1..CappedLen |-> IF n \in {1, CappedLen} THEN "fg" ELSE "f"], C)
        \o ResultsOfFile(PathB, <<"f">>, C)

\* a first file with more matches than maxHunkCount: three flags on every line
ManyResults(C) ==
    ResultsOfFile(PathA, [n \in 1..(maxHunkCount \div 3 + 1) |-> "fgh"], C)
        \o ResultsOfFile(PathB, <<"f">>, C)

\* results whose line numbers go down within a path
UnsortedResults ==
    { <<SearchResultLine(PathA, 2, KeysOfMark(m)), SearchResultLine(PathA, 1, KeysOfMark("f"))>> :
        m \in MarksR }

\* results that hold a line number of a path twice
RepeatedResults ==
    { <<SearchResultLine(PathA, 1, KeysOfMark(m)), SearchResultLine(PathA, 1, KeysOfMark("f")),
        SearchResultLine(PathB, 1, KeysOfMark("g"))>> : m \in MarksR }

InitReport ==
    /\ ctxLines \in CtxRange
    /\ g \in SmallResults(ctxLines) \cup {CappedResults(ctxLines)} \cup UnsortedResults
             \cup RepeatedResults
             \cup (IF ctxLines = -1 THEN {ManyResults(ctxLines)} ELSE {})
    /\ aggregatedSearchResults = <<>>
    /\ fileIdx = 0
    /\ numHunks = 0
    /\ shouldSuppressUnexpectedError = FALSE
    /\ reps = <<>>
    /\ pcR = "start"
    /\ IdleTruncate
    /\ IdleFlag
    /\ IdleScan
    /\ IdleRest

\* g.aggregateByPath() and the cut at maxFileCount
Aggregate ==
    /\ pcR = "start"
    /\ IF OutOfOrder(g)
       THEN /\ pcR' = "fatal"
            /\ UNCHANGED aggregatedSearchResults
       ELSE LET all == aggregateByPath(g)
            IN  /\ aggregatedSearchResults' =
                      IF Len(all) > maxFileCount THEN SubSeq(all, 1, maxFileCount) ELSE all
                /\ pcR' = "files"
    /\ UNCHANGED <<scanVars, truncVars, ctxLines, flagVars, g, fileIdx, numHunks,
                   shouldSuppressUnexpectedError, reps>>
    /\ UNCHANGED restVars

\* one turn of the loop over the files, for a file that is hunked
HunkFile ==
    /\ pcR = "files"
    /\ fileIdx < Len(aggregatedSearchResults)
    /\ ~HunkCapPassed(numHunks)
    /\ LET fsr == aggregatedSearchResults[fileIdx + 1]
       IN  \E order \in FlagOrders(DOMAIN fsr.flagReferenceMap) :
             LET made == makeHunkReps(ProjKeyF, fsr, ctxLines, order, Len(order))
             IN  IF made.panic
                 THEN /\ pcR' = "panic"
                      /\ UNCHANGED <<fileIdx, numHunks, shouldSuppressUnexpectedError, reps>>
                 ELSE /\ pcR' = pcR
                      /\ fileIdx' = fileIdx + 1
                      /\ IF Len(made.hunks) = 0 /\ ~shouldSuppressUnexpectedError
                         THEN /\ shouldSuppressUnexpectedError' = TRUE
                              /\ UNCHANGED <<numHunks, reps>>
                         ELSE /\ numHunks' = numHunks + Len(made.hunks)
                              /\ reps' = Append(reps, [Path |-> fsr.path, Hunks |-> made.hunks])
                              /\ UNCHANGED shouldSuppressUnexpectedError
    /\ UNCHANGED <<scanVars, truncVars, ctxLines, flagVars, g, aggregatedSearchResults>>
    /\ UNCHANGED restVars

\* the break of the loop when numHunks has passed maxHunkCount, and the return
HaltAtMaxHunkCount ==
    /\ pcR = "files"
    /\ fileIdx < Len(aggregatedSearchResults)
    /\ HunkCapPassed(numHunks)
    /\ pcR' = "returned"
    /\ UNCHANGED <<scanVars, truncVars, ctxLines, flagVars, g, aggregatedSearchResults, fileIdx,
                   numHunks, shouldSuppressUnexpectedError, reps>>
    /\ UNCHANGED restVars

\* the return after the last file
ReturnReps ==
    /\ pcR = "files"
    /\ fileIdx = Len(aggregatedSearchResults)
    /\ pcR' = "returned"
    /\ UNCHANGED <<scanVars, truncVars, ctxLines, flagVars, g, aggregatedSearchResults, fileIdx,
                   numHunks, shouldSuppressUnexpectedError, reps>>
    /\ UNCHANGED restVars

NextReport == Aggregate \/ HunkFile \/ HaltAtMaxHunkCount \/ ReturnReps

SpecReport == InitReport /\ [][NextReport]_vars

-----------------------------------------------------------------------------
(* Specification of two executions of makeReferenceHunksReps on the same     *)
(* search results                                                           *)

\* sorted results of two files, the first of MaxTwiceLines lines
TwiceResults(C) ==
    { ResultsOfFile(PathA, ma, C) \o ResultsOfFile(PathB, mb, C) :
        ma \in [1..MaxTwiceLines -> MarksR], mb \in SecondFiles }

InitReportTwice ==
    /\ ctxLines \in CtxRange
    /\ g \in TwiceResults(ctxLines)
    /\ aggregatedSearchResults = <<>>
    /\ fileIdx = 0
    /\ numHunks = 0
    /\ shouldSuppressUnexpectedError = FALSE
    /\ reps = <<>>
    /\ pcR = "start"
    /\ IdleTruncate
    /\ IdleFlag
    /\ IdleScan
    /\ IdleRest

\* One execution of makeReferenceHunksReps(projKey, ctxLines) on g, from
\* its call to its return; the second one keeps what the first one returned.
MakeReferenceHunksReps ==
    /\ pcR \in {"start", "returned"}
    /\ ~firstRun.returned
    /\ firstRun' = IF pcR = "returned" THEN [returned |-> TRUE, reps |-> reps] ELSE firstRun
    /\ IF OutOfOrder(g)
       THEN /\ pcR' = "fatal"
            /\ UNCHANGED <<aggregatedSearchResults, fileIdx, numHunks,
                           shouldSuppressUnexpectedError, reps>>
       ELSE LET all == aggregateByPath(g)
                files == IF Len(all) > maxFileCount THEN SubSeq(all, 1, maxFileCount) ELSE all
            IN  \E orders \in FlagOrdersOf(files) :
                  LET st == HunkFiles(ProjKeyF, files, ctxLines, orders, Len(files))
                  IN  /\ aggregatedSearchResults' = files
                      /\ fileIdx' = Len(files)
                      /\ numHunks' = st.numHunks
                      /\ shouldSuppressUnexpectedError' = st.shouldSuppressUnexpectedError
                      /\ reps' = st.reps
                      /\ pcR' = IF st.panic THEN "panic" ELSE "returned"
    /\ UNCHANGED <<scanVars, truncVars, ctxLines, flagVars, g>>
    /\ UNCHANGED <<runVars, clientVars, optionVars>>

NextReportTwice == MakeReferenceHunksReps

SpecReportTwice == InitReportTwice /\ [][NextReportTwice]_vars

-----------------------------------------------------------------------------
(* Specification of Scan from the flag keys of the project to the report *)

\* flag keys of one to three characters; "a" and "ab" are parts of "abc"
KeyPool == {<<97>>, <<97, 98>>, <<97, 98, 99>>, <<120, 121, 122>>}

\* the lists of distinct flag keys that GetFlagKeyList can give
FlagLists ==
    UNION { { fs \in [1..n -> KeyPool] : \A i, j \in 1..n : i # j => fs[i] # fs[j] } :
            n \in 0..MaxFlags }

\* source lines:  (nothing)  "abc"  abc  "ab"  "ABC"  ABC  "xyz" ABC
TextPool ==
    {<<>>, <<34, 97, 98, 99, 34>>, <<97, 98, 99>>, <<34, 97, 98, 34>>, <<34, 65, 66, 67, 34>>,
     <<65, 66, 67>>, <<34, 120, 121, 122, 34, 32, 65, 66, 67>>}

\* the second file holds the line  'xyz'
SecondText == << <<39, 120, 121, 122, 39>> >>

\* no delimiters, or the default ones  " ' `
DelimStrings == {<<>>, <<34, 39, 96>>}

InitScan ==
    /\ ctxLines \in CtxRange
    /\ flags \in FlagLists
    /\ dirFiles \in { <<[path |-> PathA, text |-> t], [path |-> PathB, text |-> SecondText]>> :
                        t \in [1..MaxScanLines -> TextPool] }
    /\ aliasOption \in {"none", "upper"}
    /\ delimString \in DelimStrings
    /\ filteredFlags = <<>>
    /\ omittedFlags = <<>>
    /\ aliases = EmptyMap
    /\ pcS = "filter"
    /\ IdleTruncate
    /\ IdleFlag
    /\ IdleReport
    /\ IdleRest

\* Scan from the flag list to filterShortFlagKeys and its early exits
FilterFlags ==
    /\ pcS = "filter"
    /\ IF Len(flags) = 0
       THEN /\ pcS' = "exit0"
            /\ UNCHANGED <<filteredFlags, omittedFlags>>
       ELSE LET split == filterShortFlagKeys(flags)
            IN  /\ filteredFlags' = split.filtered
                /\ omittedFlags' = split.omitted
                /\ pcS' = IF Len(split.filtered) = 0 THEN "exit0" ELSE "search"
    /\ UNCHANGED <<truncVars, ctxLines, flagVars, reportVars, dirFiles, aliasOption,
                   delimString, flags, aliases>>
    /\ UNCHANGED restVars

\* generateAliases, findReferences and sort.Sort
FindReferences ==
    /\ pcS = "search"
    /\ \E order \in FlagOrders(1..Len(dirFiles)) :
         LET als == generateAliases(filteredFlags, aliasOption)
             refs == findReferences(dirFiles, order, als, ctxLines, delimString, Len(order))
         IN  /\ aliases' = als
             /\ g' = SortResults(refs, Len(PathOrder))
    /\ pcS' = "report"
    /\ UNCHANGED <<truncVars, ctxLines, flagVars, aggregatedSearchResults, fileIdx, numHunks,
                   shouldSuppressUnexpectedError, reps, pcR, dirFiles, aliasOption,
                   delimString, flags, filteredFlags, omittedFlags>>
    /\ UNCHANGED restVars

\* b.makeBranchRep(projKey, ctxLines): makeReferenceHunksReps on the results
MakeBranchRep ==
    /\ pcS = "report"
    /\ IF OutOfOrder(g)
       THEN /\ pcS' = "fatal"
            /\ pcR' = "fatal"
            /\ UNCHANGED <<aggregatedSearchResults, fileIdx, numHunks,
                           shouldSuppressUnexpectedError, reps>>
       ELSE LET all == aggregateByPath(g)
                files == IF Len(all) > maxFileCount THEN SubSeq(all, 1, maxFileCount) ELSE all
            IN  \E orders \in FlagOrdersOf(files) :
                  LET st == HunkFiles(ProjKeyF, files, ctxLines, orders, Len(files))
                  IN  /\ aggregatedSearchResults' = files
                      /\ fileIdx' = Len(files)
                      /\ numHunks' = st.numHunks
                      /\ shouldSuppressUnexpectedError' = st.shouldSuppressUnexpectedError
                      /\ reps' = st.reps
                      /\ pcR' = IF st.panic THEN "panic" ELSE "returned"
                      /\ pcS' = IF st.panic THEN "panic" ELSE "done"
    /\ UNCHANGED <<truncVars, ctxLines, flagVars, g, dirFiles, aliasOption, delimString,
                   flags, filteredFlags, omittedFlags, aliases>>
    /\ UNCHANGED restVars

NextScan == FilterFlags \/ FindReferences \/ MakeBranchRep

SpecScan == InitScan /\ [][NextScan]_vars

-----------------------------------------------------------------------------
(* Specification of a run of Scan: the requests to the service and to the   *)
(* git remote, around the search and the report                             *)

\* the errors that a call of the service client can return besides nil:
\* ld.IsTransient holds of the first and not of the second
ServiceErrors == {"transient", "permanent"}
IsTransient(err) == err = "transient"

\* the errors of PutCodeReferenceBranch that Scan tells apart
BranchUpdateSequenceIdConflictErr == "conflict"
EntityTooLargeErr == "tooLarge"

\* a request and its answer; body is the list of branches of a delete task
Request(req, res, body) == [req |-> req, res |-> res, body |-> body]

\* fatalServiceError(err, ignoreServiceErrors): where the process ends
fatalServiceErrorIgnoresAll(err, ignore) == IF ignore THEN "exit0" ELSE "fatal"
fatalServiceError(err, ignore) == IF IsTransient(err) /\ ignore THEN "exit0" ELSE "fatal"

\* MaybeUpsertCodeReferenceRepository(repoParams): the requests it can send
\* and the error it returns.  GET the repository; POST it when it is absent,
\* a conflict being a success; PATCH it when it differs.
MaybeUpsertConflictIsError ==
    { [sent |-> <<Request("GET repository", "ok", <<>>)>>, err |-> "nil"] }
    \cup { [sent |-> <<Request("GET repository", "notFound", <<>>),
                      Request("POST repository", r, <<>>)>>,
            err |-> IF r = "ok" THEN "nil" ELSE "permanent"] :
              r \in {"ok", "conflict"} \cup ServiceErrors }
MaybeUpsertCodeReferenceRepository ==
    { [sent |-> <<Request("GET repository", e, <<>>)>>, err |-> e] : e \in ServiceErrors }
    \cup { [sent |-> <<Request("GET repository", "ok", <<>>)>>, err |-> "nil"] }
    \cup { [sent |-> <<Request("GET repository", "notFound", <<>>),
                      Request("POST repository", r, <<>>)>>,
            err |-> IF r \in {"ok", "conflict"} THEN "nil" ELSE r] :
              r \in {"ok", "conflict"} \cup ServiceErrors }
    \cup { [sent |-> <<Request("GET repository", "ok", <<>>),
                      Request("PATCH repository", r, <<>>)>>,
            err |-> IF r = "ok" THEN "nil" ELSE r] : r \in {"ok"} \cup ServiceErrors }

\* Where Scan goes once the report is built: WriteToCSV can fail, and a dry
\* run returns.
AfterReportNextAlwaysPuts(csv, dry) == IF csv = "failed" THEN "fatal" ELSE "put"
AfterReportNext(csv, dry) ==
    IF csv = "failed" THEN "fatal"
    ELSE IF dry THEN "returned"
    ELSE "put"

\* the switch on the error of PutCodeReferenceBranch: where Scan goes next
PutSwitchTooLargeAsConflict(err, ignore) ==
    IF err \in {BranchUpdateSequenceIdConflictErr, EntityTooLargeErr} THEN "prune"
    ELSE IF err # "nil" THEN fatalServiceError(err, ignore)
    ELSE "prune"
PutSwitchAlwaysPrunes(err, ignore) == "prune"
PutSwitch(err, ignore) ==
    IF err = BranchUpdateSequenceIdConflictErr THEN "prune"
    ELSE IF err = EntityTooLargeErr THEN "fatal"
    ELSE IF err # "nil" THEN fatalServiceError(err, ignore)
    ELSE "prune"

\* calculateStaleBranches(branches, remoteBranches)
calculateStaleBranchesKeepsRemote(bs, remote) ==
    LET OnRemote(name) == name \in remote
    IN  SelectSeq(bs, OnRemote)
calculateStaleBranches(bs, remote) ==
    LET NotOnRemote(name) == name \notin remote
    IN  SelectSeq(bs, NotOnRemote)

\* deleteStaleBranches(ldApi, repoName, remoteBranches), given the answers of
\* the service to the listing and to the delete task
deleteStaleBranches(bs, remote, listRes, postRes) ==
    IF listRes # "ok"
    THEN [sent |-> <<Request("GET branches", listRes, <<>>)>>, err |-> listRes]
    ELSE LET staleBranches == calculateStaleBranches(bs, remote)
         IN  IF Len(staleBranches) > 0
             THEN [sent |-> <<Request("GET branches", "ok", <<>>),
                              Request("POST branch-delete-tasks", postRes, staleBranches)>>,
                   err |-> IF postRes = "ok" THEN "nil" ELSE postRes]
             ELSE [sent |-> <<Request("GET branches", "ok", <<>>)>>, err |-> "nil"]

\* the branch names, and the lists of at most MaxBranches distinct ones
BranchPool == {"main", "feature-a", "feature-b"}
BranchLists ==
    UNION { { bs \in [1..n -> BranchPool] : \A i, j \in 1..n : i # j => bs[i] # bs[j] } :
            n \in 0..MaxBranches }

\* The branch that is scanned, "refs/heads/" + short or short alone, and
\* the Name of makeBranchRep: strings.TrimPrefix(b.Name, "refs/heads/").
GitBranches == [refsHeads : BOOLEAN, short : {"main", "feature-b"}]
BranchRepName(b) == b.short

\* the flag lists that the service gives in a run: of "ab" and "abc"
RunFlagLists == { fs \in FlagLists : RangeOf(fs) \subseteq {<<97, 98>>, <<97, 98, 99>>} }

InitRun ==
    /\ ctxLines = 1
    /\ isDryRun \in BOOLEAN
    /\ ignoreServiceErrors \in BOOLEAN
    /\ branches \in BranchLists
    /\ remoteBranches \in SUBSET BranchPool
    /\ gitBranch \in GitBranches
    /\ requests = <<>>
    /\ dirFiles = <<[path |-> PathA, text |-> [n \in 1..MaxScanLines |-> <<34, 97, 98, 99, 34>>]],
                    [path |-> PathB, text |-> SecondText]>>
    /\ aliasOption = "none"
    /\ delimString = <<34, 39, 96>>
    /\ flags = <<>>
    /\ filteredFlags = <<>>
    /\ omittedFlags = <<>>
    /\ aliases = EmptyMap
    /\ pcS = "upsert"
    /\ IdleTruncate
    /\ IdleFlag
    /\ IdleReport
    /\ IdleTwice
    /\ IdleClient
    /\ IdleOption

\* if !isDryRun { ldApi.MaybeUpsertCodeReferenceRepository(repoParams) ... }
Upsert ==
    /\ pcS = "upsert"
    /\ IF isDryRun
       THEN /\ pcS' = "getFlags"
            /\ UNCHANGED requests
       ELSE \E up \in MaybeUpsertCodeReferenceRepository :
              /\ requests' = requests \o up.sent
              /\ pcS' = IF up.err # "nil" THEN fatalServiceError(up.err, ignoreServiceErrors)
                        ELSE "getFlags"
    /\ UNCHANGED <<truncVars, ctxLines, flagVars, reportVars, twiceVars, dirFiles, aliasOption,
                   delimString, flags, filteredFlags, omittedFlags, aliases, isDryRun,
                   ignoreServiceErrors, branches, remoteBranches, gitBranch>>
    /\ UNCHANGED <<clientVars, optionVars>>

\* flags, err := getFlags(ldApi)
GetFlags ==
    /\ pcS = "getFlags"
    /\ \/ \E e \in ServiceErrors :
            /\ requests' = Append(requests, Request("GET flags", e, <<>>))
            /\ pcS' = fatalServiceError(e, ignoreServiceErrors)
            /\ UNCHANGED flags
       \/ \E fs \in RunFlagLists :
            /\ requests' = Append(requests, Request("GET flags", "ok", <<>>))
            /\ flags' = fs
            /\ pcS' = "filter"
    /\ UNCHANGED <<truncVars, ctxLines, flagVars, reportVars, twiceVars, dirFiles, aliasOption,
                   delimString, filteredFlags, omittedFlags, aliases, isDryRun,
                   ignoreServiceErrors, branches, remoteBranches, gitBranch>>
    /\ UNCHANGED <<clientVars, optionVars>>

\* After makeBranchRep: the CSV file when outDir is set, and the return of a
\* dry run.
AfterReport ==
    /\ pcS = "done"
    /\ \E csv \in {"none", "written", "failed"} : pcS' = AfterReportNext(csv, isDryRun)
    /\ UNCHANGED <<truncVars, ctxLines, flagVars, reportVars, twiceVars, dirFiles, aliasOption,
                   delimString, flags, filteredFlags, omittedFlags, aliases, runVars>>
    /\ UNCHANGED <<clientVars, optionVars>>

\* ldApi.PutCodeReferenceBranch(branchRep, repoParams.Name) and the switch on
\* its error
PutBranch ==
    /\ pcS = "put"
    /\ \E err \in {"nil", BranchUpdateSequenceIdConflictErr, EntityTooLargeErr}
                     \cup ServiceErrors :
         /\ requests' = Append(requests, Request("PUT branch", err, <<BranchRepName(gitBranch)>>))
         /\ pcS' = PutSwitch(err, ignoreServiceErrors)
    /\ UNCHANGED <<truncVars, ctxLines, flagVars, reportVars, twiceVars, dirFiles, aliasOption,
                   delimString, flags, filteredFlags, omittedFlags, aliases, isDryRun,
                   ignoreServiceErrors, branches, remoteBranches, gitBranch>>
    /\ UNCHANGED <<clientVars, optionVars>>

\* gitClient.RemoteBranches() and deleteStaleBranches
Prune ==
    /\ pcS = "prune"
    /\ \/ /\ requests' = Append(requests, Request("git remote branches", "failed", <<>>))
          /\ pcS' = "returned"
       \/ \E listRes \in {"ok"} \cup ServiceErrors, postRes \in {"ok"} \cup ServiceErrors :
            LET del == deleteStaleBranches(branches, remoteBranches, listRes, postRes)
            IN  /\ requests' = Append(requests, Request("git remote branches", "ok", <<>>))
                                 \o del.sent
                /\ pcS' = IF del.err # "nil"
                          THEN fatalServiceError(del.err, ignoreServiceErrors)
                          ELSE "returned"
    /\ UNCHANGED <<truncVars, ctxLines, flagVars, reportVars, twiceVars, dirFiles, aliasOption,
                   delimString, flags, filteredFlags, omittedFlags, aliases, isDryRun,
                   ignoreServiceErrors, branches, remoteBranches, gitBranch>>
    /\ UNCHANGED <<clientVars, optionVars>>

NextRun ==
    Upsert \/ GetFlags \/ FilterFlags \/ FindReferences \/ MakeBranchRep \/ AfterReport
        \/ PutBranch \/ Prune

SpecRun == InitRun /\ [][NextRun]_vars

-----------------------------------------------------------------------------
(* Specification of ApiClient.PutCodeReferenceBranch *)

\* the status codes of a response
StatusCodes == 200..599

\* What a call can meet.  client.Do(req) comes back with a response with a
\* status and no error, with no response and an error (the request could
\* not be sent), or with a response and an error (the redirects were given
\* up); before it, json.Marshal or http.NewRequest can fail.
DoResults ==
    { [kind |-> "response", status |-> st] : st \in StatusCodes }
    \cup { [kind |-> "noResponse"], [kind |-> "redirectsGivenUp"],
           [kind |-> "marshalFails"], [kind |-> "newRequestFails"] }

\* PutCodeReferenceBranch(branch, repo): the error it returns, "nil" for
\* none; "panic" is the read of res.Status of a nil response
PutCodeReferenceBranch(a) ==
    IF a.kind = "marshalFails" THEN "jsonError"
    ELSE IF a.kind = "newRequestFails" THEN "requestError"
    ELSE IF a.kind = "noResponse" THEN "panic"
    ELSE IF a.kind = "redirectsGivenUp" THEN "doError"
    ELSE "nil"

InitPut ==
    /\ answer \in DoResults
    /\ putErr = "none"
    /\ ctxLines = 0
    /\ IdleTruncate
    /\ IdleFlag
    /\ IdleReport
    /\ IdleScan
    /\ IdleTwice
    /\ IdleRun
    /\ IdleOption

\* one call of PutCodeReferenceBranch
CallPutCodeReferenceBranch ==
    /\ putErr = "none"
    /\ putErr' = PutCodeReferenceBranch(answer)
    /\ UNCHANGED <<truncVars, ctxLines, flagVars, reportVars, scanVars, twiceVars, runVars,
                   answer, optionVars>>

NextPut == CallPutCodeReferenceBranch

SpecPut == InitPut /\ [][NextPut]_vars

-----------------------------------------------------------------------------
(* Specification of Alias.IsValid *)

Literal == "literal"
CamelCase == "camelcase"
PascalCase == "pascalcase"
SnakeCase == "snakecase"
UpperSnakeCase == "uppersnakecase"
KebabCase == "kebabcase"
DotCase == "dotcase"
FilePattern == "filepattern"
Command == "command"

AliasTypes ==
    {Literal, CamelCase, PascalCase, SnakeCase, UpperSnakeCase, KebabCase, DotCase,
     FilePattern, Command}

\* AliasType.IsValid: is the type one of the constants?
AliasTypeIsValid(t) == t \in AliasTypes

\* The Alias values: a field that is nil or empty is "nil".  Pattern is nil,
\* a text without FLAG_KEY, a text with FLAG_KEY that regexp.Compile
\* refuses, or a text with FLAG_KEY that compiles; Timeout is <<>> for nil or <<n>>.
Aliases ==
    [Type : AliasTypes \cup {"sentencecase"},
     Flags : {"nil", "set"},
     Path : {"nil", "set"},
     Paths : {"nil", "set"},
     Pattern : {"nil", "noFlagKey", "uncompilable", "compiles"},
     Command : {"nil", "set"},
     Timeout : {<<>>, <<-1>>, <<0>>, <<5>>}]

\* AliasType.unexpectedFieldErr: the text of the error
unexpectedFieldErr(t, field) == "unexpected field for " \o t \o " alias: '" \o field \o "'"

\* the first switch of IsValid, on the fields that the type expects
ExpectedFieldsErr(al) ==
    IF al.Type = Literal
    THEN IF al.Flags = "nil" THEN "literal aliases must provide an 'flags'" ELSE "nil"
    ELSE IF al.Type = FilePattern
    THEN IF al.Paths = "nil" /\ al.Path = "nil"
         THEN "filePattern aliases must provide at least one path in 'paths'"
         ELSE IF al.Pattern = "nil" THEN "filePattern aliases must provide a 'pattern'"
         ELSE IF al.Pattern = "noFlagKey" THEN "pattern must contain 'FLAG_KEY' for templating"
         ELSE IF al.Pattern = "uncompilable" THEN "could not validate regex pattern"
         ELSE "nil"
    ELSE IF al.Type = Command
    THEN IF al.Command = "nil" THEN "command aliases must provide a 'command'"
         ELSE IF al.Timeout # <<>> /\ al.Timeout[1] < 0 THEN "field 'timeout' must be >= 0"
         ELSE "nil"
    ELSE "nil"

\* The second switch of IsValid: a switch without a tag runs its first case
\* that is true, and only that one.
UnexpectedField(al) ==
    IF al.Type # Literal
    THEN IF al.Flags # "nil" THEN "flags" ELSE ""
    ELSE IF al.Type # FilePattern
    THEN IF al.Pattern # "nil" THEN "pattern"
         ELSE IF al.Paths # "nil" THEN "paths"
         ELSE ""
    ELSE IF al.Type # Command
    THEN IF al.Timeout # <<>> THEN "timeout"
         ELSE IF al.Command # "nil" THEN "command"
         ELSE ""
    ELSE ""

\* Alias.IsValid: the error it returns, "nil" for none
IsValid(al) ==
    IF ~AliasTypeIsValid(al.Type) THEN "is not a valid alias type"
    ELSE IF ExpectedFieldsErr(al) # "nil" THEN ExpectedFieldsErr(al)
    ELSE IF UnexpectedField(al) # "" THEN unexpectedFieldErr(al.Type, UnexpectedField(al))
    ELSE "nil"

InitAlias ==
    /\ aliasSpec \in Aliases
    /\ aliasErr = "none"
    /\ ctxLines = 0
    /\ IdleTruncate
    /\ IdleFlag
    /\ IdleReport
    /\ IdleScan
    /\ IdleTwice
    /\ IdleRun
    /\ IdleClient

\* one call of a.IsValid()
CallIsValid ==
    /\ aliasErr = "none"
    /\ aliasErr' = IsValid(aliasSpec)
    /\ UNCHANGED <<truncVars, ctxLines, flagVars, reportVars, scanVars, twiceVars, runVars,
                   clientVars, aliasSpec>>

NextAlias == CallIsValid

SpecAlias == InitAlias /\ [][NextAlias]_vars

-----------------------------------------------------------------------------
(* What a hunk holds *)

\* the number of lines of a hunk: the '\n' of its text
NumLinesOf(h) == Cardinality({ i \in 1..Len(h.Lines) : h.Lines[i] = Newline })

\* the line numbers of the lines written into a hunk (LineTextOf tells them)
HunkLineNums(h) ==
    { h.Lines[i] - 64 : i \in { k \in 1..Len(h.Lines) : h.Lines[k] # Newline } }

\* the line range a hunk stands for
HunkRange(h) == h.StartingLineNumber .. (h.StartingLineNumber + NumLinesOf(h) - 1)

-----------------------------------------------------------------------------
(* Claims about buildHunksForFlag (SpecFlag, SpecFlagCap) *)

RefsF == FlagReferences(fileLines, FlagF)
MatchNumsF == { fileLines[RefsF[i]].LineNum : i \in 1..Len(RefsF) }
PresentF == { fileLines[p].LineNum : p \in 1..Len(fileLines) }
LastLineF == fileLines[Len(fileLines)].LineNum
PositionsF(n) == { p \in 1..Len(fileLines) : fileLines[p].LineNum = n }

\* every line of lo..hi that exists in the file is in the list, once
HoldsContextOnce(lo, hi) ==
    \A x \in lo..hi : (1 <= x /\ x <= LastLineF) => Cardinality(PositionsF(x)) = 1

\* the list holds the context of depth C of every line with the flag
HoldsContextF(C) ==
    \A m \in MatchNumsF : \A x \in (m - C)..(m + C) :
        (1 <= x /\ x <= LastLineF) => x \in PresentF

HunkF(start, text) ==
    [ProjKey |-> ProjKeyF, FlagKey |-> FlagF, Aliases |-> <<>>,
     StartingLineNumber |-> start, Lines |-> text]

\* the hunks hs, their aliases left aside
WithoutAliases(hs) == [i \in 1..Len(hs) |-> [hs[i] EXCEPT !.Aliases = <<>>]]

\* C1: for every contextLines in -1..5 and every list with non-decreasing line
\* numbers, the hunks buildHunksForFlag returns have pairwise disjoint line
\* ranges and strictly increasing startingLineNumber, and no line number is
\* written into two hunks or twice into one.
C1_DisjointIncreasing ==
    pc = "returned" =>
        /\ \A i, j \in 1..Len(hunks) : i < j =>
             /\ HunkRange(hunks[i]) \cap HunkRange(hunks[j]) = {}
             /\ hunks[i].StartingLineNumber < hunks[j].StartingLineNumber
             /\ HunkLineNums(hunks[i]) \cap HunkLineNums(hunks[j]) = {}
        /\ \A i \in 1..Len(hunks) :
             Cardinality(HunkLineNums(hunks[i])) = NumLinesOf(hunks[i])

\* C3: for contextLines = C >= 0 every line of a hunk is at most C steps of the
\* list away from a line of that hunk that has the flag; a hunk with lines
\* starts on its first line; with C = 0 a single match on line n gives the one
\* hunk {start n, the text of line n}.
C3_WithinContext ==
    ctxLines >= 0 =>
        /\ \A i \in 1..Len(hunks) :
             /\ \A n \in HunkLineNums(hunks[i]) :
                  \E m \in HunkLineNums(hunks[i]) \cap MatchNumsF :
                      \E p \in PositionsF(n), q \in PositionsF(m) : Abs(p - q) <= ctxLines
             /\ hunks[i].Lines # <<>> =>
                  /\ hunks[i].StartingLineNumber \in HunkLineNums(hunks[i])
                  /\ \A n \in HunkLineNums(hunks[i]) : n >= hunks[i].StartingLineNumber
        /\ (pc = "returned" /\ ctxLines = 0 /\ Len(RefsF) = 1) =>
             WithoutAliases(hunks) =
                 << HunkF(fileLines[RefsF[1]].LineNum,
                          LineTextOf(fileLines[RefsF[1]].LineNum) \o <<Newline>>) >>

C3_Witness ==
    /\ pc = "returned"
    /\ ctxLines = 2
    /\ Len(hunks) = 2
    /\ NumLinesOf(hunks[1]) = 4
    /\ hunks[1].StartingLineNumber = 1
    /\ Cardinality(HunkLineNums(hunks[1]) \cap MatchNumsF) = 1
    /\ NumLinesOf(hunks[2]) = 3

\* C4, the step: when the loop takes the match on line n after the match on
\* line m < n, with C >= 0, the cap not reached and every line of m-C..n+C that
\* exists in the file in the list (once), it extends the hunk of m exactly when
\* n - C <= m + C, and otherwise appends a hunk that starts at n - C.
C4_Step ==
    (pc = "loop" /\ refIdx >= 1 /\ refIdx' = refIdx + 1 /\ ctxLines >= 0) =>
        LET m == fileLines[RefsF[refIdx]].LineNum
            n == fileLines[RefsF[refIdx + 1]].LineNum
            C == ctxLines
            k == Len(hunks)
        IN  (m < n /\ HoldsContextOnce(m - C, n + C)) =>
              IF n - C <= m + C
              THEN /\ Len(hunks') = k
                   /\ {m, n} \subseteq HunkLineNums(hunks'[k])
              ELSE /\ hunks' = Append(hunks, hunks'[k + 1])
                   /\ hunks'[k + 1].StartingLineNumber = n - C
                   /\ n \in HunkLineNums(hunks'[k + 1])

\* C4, the two examples: matches on lines 3 and 7 with C = 1 give two hunks
\* that start at 2 and 6 with three lines each; matches on lines 3 and 5 with
\* C = 2 give one hunk that starts at 1 with the lines 1..7.
C4_Examples ==
    /\ (pc = "returned" /\ ctxLines = 1 /\ MatchNumsF = {3, 7}
          /\ HoldsContextOnce(2, 8) /\ PresentF = {2, 3, 4, 6, 7, 8}) =>
         hunks = << HunkF(2, <<66, 10, 67, 10, 68, 10>>),
                    HunkF(6, <<70, 10, 71, 10, 72, 10>>) >>
    /\ (pc = "returned" /\ ctxLines = 2 /\ MatchNumsF = {3, 5}
          /\ HoldsContextOnce(1, 7) /\ PresentF = 1..7) =>
         hunks = << HunkF(1, <<65, 10, 66, 10, 67, 10, 68, 10, 69, 10, 70, 10, 71, 10>>) >>

C5_NoSourceText ==
    ctxLines = -1 =>
        /\ Len(hunks) = refIdx
        /\ \A i \in 1..Len(hunks) :
             hunks[i] = HunkF(fileLines[RefsF[i]].LineNum, <<>>)

C5_Witness ==
    /\ ctxLines = -1
    /\ pc = "returned"
    /\ Len(hunks) = 3
    /\ hunks[3].StartingLineNumber > hunks[1].StartingLineNumber

\* the list of the file for the depth C: the lines within C of a match
RestrictF(C) ==
    LET Near(r) == \E m \in MatchNumsF : r.LineNum - m <= C /\ m - r.LineNum <= C
    IN  SelectSeq(fileLines, Near)

\* the number of lines buildHunksForFlag writes for the list and the depth
EmittedF(lines, C) ==
    buildHunksForFlag(ProjKeyF, FlagF, lines, FlagReferences(lines, FlagF), C).numHunkedLines

\* C9 as claimed: for a list that holds the context of depth C, no depth
\* C' < C gives more lines in the hunks of the flag than C does.
C9_Original ==
    (pc = "returned" /\ ctxLines >= 1 /\ HoldsContextF(ctxLines)) =>
        \A C2 \in 0..(ctxLines - 1) :
            /\ EmittedF(RestrictF(C2), C2) <= numHunkedLines

\* C9, amended: the same, provided the lines written with the depth C do not
\* exceed maxHunkedLinesPerFileAndFlagCount; the depth C' is given the list of
\* the depth C or the list of the depth C'.
C9_FewerContextFewerLines ==
    (pc = "returned" /\ ctxLines >= 1 /\ HoldsContextF(ctxLines)
       /\ numHunkedLines <= maxHunkedLinesPerFileAndFlagCount) =>
        \A C2 \in 0..(ctxLines - 1) :
            /\ EmittedF(RestrictF(C2), C2) <= numHunkedLines
            /\ EmittedF(fileLines, C2) <= numHunkedLines

C9_Witness ==
    /\ pc = "returned"
    /\ ctxLines = 2
    /\ HoldsContextF(2)
    /\ Len(RefsF) = 2
    /\ Len(hunks) = 1
    /\ numHunkedLines = 7
    /\ EmittedF(RestrictF(1), 1) = 6
    /\ EmittedF(RestrictF(0), 0) = 2

\* the aliases that the lines written into hunk h recorded for the flag
RecordedAliasesF(h) ==
    UNION { RangeOf(fileLines[p].FlagKeys[FlagF]) :
              p \in { q \in 1..Len(fileLines) :
                        /\ fileLines[q].LineNum \in HunkLineNums(h)
                        /\ FlagF \in DOMAIN fileLines[q].FlagKeys } }

NoRepeats(seq) == \A i, j \in 1..Len(seq) : i # j => seq[i] # seq[j]

\* C12: the Aliases of every hunk that buildHunksForFlag returns are a list
\* without repeats of exactly the aliases that the lines of the hunk recorded
\* for the flag, the lines that a later reference added to the hunk included.
C12_AliasesOfAllHunkLines ==
    pc = "returned" =>
        \A k \in 1..Len(hunks) :
            /\ NoRepeats(hunks[k].Aliases)
            /\ RangeOf(hunks[k].Aliases) = RecordedAliasesF(hunks[k])

\* is the text s the beginning of the text t?
IsPrefixOf(s, t) == Len(s) <= Len(t) /\ SubSeq(t, 1, Len(s)) = s

\* the step leaves the appended hunks as the loop may: none is dropped, every
\* hunk but the last is the same, and the last differs at most in Lines, of
\* which the former text is the beginning; it is the same when a hunk is
\* appended after it
HunksStay ==
    LET n == Len(hunks)
    IN  /\ Len(hunks') >= n
        /\ \A i \in 1..(n - 1) : hunks'[i] = hunks[i]
        /\ n >= 1 =>
              /\ hunks'[n] = [hunks[n] EXCEPT !.Lines = hunks'[n].Lines]
              /\ IsPrefixOf(hunks[n].Lines, hunks'[n].Lines)
              /\ Len(hunks') > n => hunks'[n] = hunks[n]

\* C27: while buildHunksForFlag walks the references of a file and a flag, a
\* hunk that was appended is never changed, but for the last one, whose
\* Lines may be replaced by a text that begins with its former Lines; its
\* StartingLineNumber, ProjKey and FlagKey stay, and a hunk that is not the
\* last one is never touched.
C27_AppendedHunksStay == [][HunksStay]_vars

\* after the third reference there are two hunks, and the second one holds
\* more text than it held when it was appended by the second reference
C27_Witness ==
    LET refs == FlagReferences(fileLines, FlagF)
        st1 == HunkRef(ProjKeyF, FlagF, fileLines, ctxLines, HunkStart, refs[1])
        st2 == HunkRef(ProjKeyF, FlagF, fileLines, ctxLines, st1, refs[2])
    IN  /\ refIdx = 3
        /\ pc = "loop"
        /\ Len(hunks) = 2
        /\ Len(st2.hunks) = 2
        /\ Len(hunks[2].Lines) > Len(st2.hunks[2].Lines)
        /\ hunks[1] = st1.hunks[1]

-----------------------------------------------------------------------------
(* Claims about makeReferenceHunksReps (SpecReport) *)

\* the files of the search results, before the cut at maxFileCount
FilesR == aggregateByPath(g)

\* the line numbers on which flag f matches in a file
MatchLinesR(fsr, f) ==
    { fsr.fileSearchResultLines[fsr.flagReferenceMap[f][i]].LineNum :
        i \in 1..Len(fsr.flagReferenceMap[f]) }

\* the hunks of flag f that the report holds for a path
HunksOfR(path, f) ==
    UNION { { reps[i].Hunks[j] : j \in { n \in 1..Len(reps[i].Hunks) :
                                          reps[i].Hunks[n].FlagKey = f } } :
            i \in { n \in 1..Len(reps) : reps[n].Path = path } }

RECURSIVE CountHunks(_, _)
CountHunks(rs, n) == IF n = 0 THEN 0 ELSE CountHunks(rs, n - 1) + Len(rs[n].Hunks)

\* the number of hunks the report holds for the files before file k
HunksBeforeR(files, k) ==
    LET earlier == { files[i].path : i \in 1..(k - 1) }
        Earlier(r) == r.Path \in earlier
        held == SelectSeq(reps, Earlier)
    IN  CountHunks(held, Len(held))

\* the lines the report holds for flag f of a path
LinesOfR(path, f) == UNION { HunkLineNums(h) : h \in HunksOfR(path, f) }

\* every line on which f matches in the file lies in the range of a hunk
CoveredR(fsr, f) ==
    LET held == HunksOfR(fsr.path, f)
    IN  \A n \in MatchLinesR(fsr, f) : \E h \in held : n \in HunkRange(h)

C7_TotalHunksWithinCap == CountHunks(reps, Len(reps)) <= maxHunkCount

\* the last line of a file that the search results hold
LastLineR(fsr) == fsr.fileSearchResultLines[Len(fsr.fileSearchResultLines)].LineNum

\* the lines of a file within C of one of the given match lines
WindowsR(fsr, matches, C) ==
    { x \in 1..LastLineR(fsr) : \E m \in (x - C)..(x + C) : m \in matches }

\* The matches of f in a file up to the first one at which the lines within
\* C of the matches so far number more than maxHunkedLinesPerFileAndFlagCount.
UpToCapR(fsr, f, C) ==
    LET all == MatchLinesR(fsr, f)
        windows == WindowsR(fsr, all, C)
        over == { m \in all :
                    Cardinality({ x \in windows : x <= m + C })
                        > maxHunkedLinesPerFileAndFlagCount }
    IN  { m \in all : \A o \in over : m <= o }

\* what the report is to hold for flag f of a file
HunkedUpToCapR(fsr, f, C) ==
    IF C >= 0
    THEN LinesOfR(fsr.path, f) = WindowsR(fsr, UpToCapR(fsr, f, C), C)
    ELSE { h.StartingLineNumber : h \in HunksOfR(fsr.path, f) } = MatchLinesR(fsr, f)

LineNumberGoesDown ==
    \E i \in 1..(Len(g) - 1) : g[i].Path = g[i + 1].Path /\ g[i + 1].LineNum < g[i].LineNum

\* C21: once aggregateByPath has run, the run has failed fatally exactly when
\* a result line has a smaller line number than the line added before it
\* for the same path, equal and larger line numbers being accepted; a run
\* that has failed has made no file of the aggregation and no report.
C21_OutOfOrderIsFatal ==
    /\ pcR \notin {"idle", "start"} => (pcR = "fatal" <=> LineNumberGoesDown)
    /\ pcR = "fatal" => aggregatedSearchResults = <<>> /\ reps = <<>> /\ numHunks = 0

\* a run that failed on results whose second line goes down, the first one
\* naming a flag
C21_Witness ==
    /\ pcR = "fatal"
    /\ Len(g) = 2
    /\ g[1].LineNum > g[2].LineNum
    /\ g[1].FlagKeys # EmptyMap

\* C24: every entry of the report of makeReferenceHunksReps has at least
\* one hunk: a file of the aggregation that gives no hunk is left out, the
\* first such file and the later ones alike.
C24_NoEntryWithoutHunks ==
    \A i \in 1..Len(reps) : Len(reps[i].Hunks) >= 1

-----------------------------------------------------------------------------
(* Claims about two executions of makeReferenceHunksReps (SpecReportTwice) *)

\* C13: two executions of makeReferenceHunksReps on the same sorted results,
\* projKey and contextLines return the same files with the same sequence of
\* hunks, the order of the hunks of different flags of a file included.
C13_SameReportTwice ==
    (firstRun.returned /\ pcR = "returned") => reps = firstRun.reps

-----------------------------------------------------------------------------
(* Claims about Scan (SpecScan) *)

\* the hunks of the report
HunksOfReport ==
    UNION { { reps[i].Hunks[j] : j \in 1..Len(reps[i].Hunks) } : i \in 1..Len(reps) }

\* C10: once filterShortFlagKeys has run, filteredFlags holds the keys of at
\* least 3 characters and omittedFlags the shorter ones, both in the order
\* of the flag list; and every hunk of the report has a FlagKey that is one
\* of filteredFlags and has at least 3 characters.
C10_OnlyKeptKeysInHunks ==
    LET AtLeastThree(key) == Len(key) >= 3
        Shorter(key) == Len(key) < 3
    IN  /\ pcS # "filter" =>
              /\ filteredFlags = SelectSeq(flags, AtLeastThree)
              /\ omittedFlags = SelectSeq(flags, Shorter)
        /\ \A h \in HunksOfReport :
              /\ h.FlagKey \in RangeOf(filteredFlags)
              /\ Len(h.FlagKey) >= 3

\* a run that omits a key that a source line names between delimiters and
\* reports a hunk for a key it keeps
C10_Witness ==
    /\ pcS = "done"
    /\ delimString # <<>>
    /\ \E i \in 1..Len(omittedFlags) : \E n \in 1..Len(dirFiles[1].text) :
          ContainsDelimited(dirFiles[1].text[n], omittedFlags[i], delimString)
    /\ HunksOfReport # {}

\* the search terms of a flag: its key and its aliases
SearchTerms(key) == {key} \cup RangeOf(aliases[key])

\* C11: with a non-empty delimiter set, a line of the search results names a
\* flag only if the key or one of the aliases of the flag occurs on the line
\* between two delimiters; with the empty set, a line names a flag exactly
\* when one of its terms occurs on it.
C11_OnlyDelimitedTermsMatch ==
    pcS \in {"report", "done", "panic", "fatal"} =>
        \A i \in 1..Len(g) : \A key \in DOMAIN aliases :
            IF Len(delimString) > 0
            THEN key \in DOMAIN g[i].FlagKeys =>
                    \E term \in SearchTerms(key) :
                        ContainsDelimited(g[i].LineText, term, delimString)
            ELSE key \in DOMAIN g[i].FlagKeys <=>
                    \E term \in SearchTerms(key) : Contains(g[i].LineText, term)

-----------------------------------------------------------------------------
(* Claims about a run of Scan (SpecRun) *)

\* the positions of the log that hold a request of one of the kinds
Sent(kinds) == { i \in 1..Len(requests) : requests[i].req \in kinds }

MutatingRequests ==
    {"POST repository", "PATCH repository", "PUT branch", "POST branch-delete-tasks"}
UpsertRequests == {"GET repository", "POST repository", "PATCH repository"}
PruneRequests == {"git remote branches", "GET branches", "POST branch-delete-tasks"}

\* the process has ended, and its exit code is 0
Ended == pcS \in {"returned", "exit0", "fatal", "panic"}
ExitZero == pcS \in {"returned", "exit0"}

\* C14: a dry run sends no request that changes the service (no POST or
\* PATCH of the repository, no PUT of the branch, no delete task), and never
\* comes to the submission or the pruning: it ends once the report is built.
C14_DryRunChangesNothing ==
    isDryRun =>
        /\ Sent(MutatingRequests) = {}
        /\ pcS \notin {"put", "prune"}

\* a dry run that has built a report with a hunk and has returned
C14_Witness ==
    /\ isDryRun
    /\ pcS = "returned"
    /\ HunksOfReport # {}

\* the upsert has returned without an error before position i of the log:
\* the last request about the repository before i was answered well
UpsertReturnedBefore(i) ==
    LET before == { k \in Sent(UpsertRequests) : k < i }
    IN  /\ before # {}
        /\ LET last == CHOOSE k \in before : \A j \in before : j <= k
           IN  \/ requests[last].req = "GET repository" /\ requests[last].res = "ok"
               \/ requests[last].req = "POST repository"
                    /\ requests[last].res \in {"ok", "conflict"}
               \/ requests[last].req = "PATCH repository" /\ requests[last].res = "ok"

\* the PUT of the branch has returned to Scan before position i of the log
PutReturnedBefore(i) ==
    \E k \in Sent({"PUT branch"}) :
        k < i /\ requests[k].res \in {"nil", BranchUpdateSequenceIdConflictErr}

\* C15: in a run that is not a dry run the phases come in order and at most
\* once each: the PUT of the branch is sent only after the upsert of the
\* repository has returned without an error, the requests of the pruning
\* (remote listing, service listing, delete task) only after the PUT has
\* returned, and no PUT follows a request of the pruning.
C15_PhasesInOrderOnce ==
    ~isDryRun =>
        /\ \A kind \in {"GET repository", "GET flags", "PUT branch"} \cup PruneRequests :
              Cardinality(Sent({kind})) <= 1
        /\ Cardinality(Sent({"POST repository", "PATCH repository"})) <= 1
        /\ \A i \in Sent({"PUT branch"}) : UpsertReturnedBefore(i)
        /\ \A i \in Sent(PruneRequests) : PutReturnedBefore(i)
        /\ \A i \in Sent(PruneRequests) : \A j \in Sent({"PUT branch"}) : j < i
        /\ pcS \in {"put", "prune"} => UpsertReturnedBefore(Len(requests) + 1)
        /\ pcS = "prune" => PutReturnedBefore(Len(requests) + 1)

\* a run that has created the repository, sent the branch and posted a
\* delete task
C15_Witness ==
    /\ ~isDryRun
    /\ pcS = "returned"
    /\ Sent({"POST repository"}) # {}
    /\ Sent({"PUT branch"}) # {}
    /\ Sent({"POST branch-delete-tasks"}) # {}

\* the pruning has begun: gitClient.RemoteBranches() has been called
PruningBegun == Sent({"git remote branches"}) # {}

\* C16: a run whose PUT of the branch is answered with the conflict (409)
\* does not fail: it goes on to the pruning as after a success, and the
\* process ends with exit code 0.
C16_ConflictNeverFails ==
    (\E i \in Sent({"PUT branch"}) : requests[i].res = BranchUpdateSequenceIdConflictErr) =>
        /\ pcS \notin {"exit0", "fatal"} \/ PruningBegun
        /\ Ended => ExitZero /\ PruningBegun

\* C17: a failure in the pruning never fails the run: when the listing of
\* the remote, the listing of the service or the delete task fails, the
\* process still ends with exit code 0, whatever ignoreServiceErrors is.
C17_PruningNeverFails ==
    (PruningBegun /\ Ended) => ExitZero

\* C18: when the PUT of the branch is answered with "too large" (413), the
\* process ends with a non-zero exit code and no request of the pruning is
\* sent, whether ignoreServiceErrors is set or not.
C18_TooLargeIsFatal ==
    \A i \in Sent({"PUT branch"}) :
        requests[i].res = EntityTooLargeErr =>
            /\ pcS = "fatal"
            /\ i = Len(requests)

\* a run with ignoreServiceErrors whose PUT was answered with "too large"
C18_Witness ==
    /\ ignoreServiceErrors
    /\ requests # <<>>
    /\ requests[Len(requests)].req = "PUT branch"
    /\ requests[Len(requests)].res = EntityTooLargeErr
    /\ pcS = "fatal"

\* C19: when the upsert, the fetch of the flags or the PUT of the branch is
\* answered with a service error (not the conflict, not "too large"), the
\* process ends at once, no later request being sent: with exit code 0 when
\* the error is transient and ignoreServiceErrors is set, with a non-zero
\* exit code otherwise.
C19_ServiceErrorEndsRun ==
    \A i \in Sent(UpsertRequests \cup {"GET flags", "PUT branch"}) :
        requests[i].res \in ServiceErrors =>
            /\ i = Len(requests)
            /\ pcS \in {"exit0", "fatal"}
            /\ pcS = "exit0" => IsTransient(requests[i].res) /\ ignoreServiceErrors

\* a run with ignoreServiceErrors that a transient error of the PUT has
\* ended with exit code 0
C19_Witness ==
    /\ requests # <<>>
    /\ requests[Len(requests)].req = "PUT branch"
    /\ requests[Len(requests)].res = "transient"
    /\ ignoreServiceErrors
    /\ pcS = "exit0"

\* list is the names of bs that are not in remote, in the order of bs
IsStaleListOf(list, bs, remote) ==
    /\ RangeOf(list) = RangeOf(bs) \ remote
    /\ \E at \in [1..Len(list) -> 1..Len(bs)] :
          /\ \A k \in 1..Len(list) : bs[at[k]] = list[k]
          /\ \A k, l \in 1..Len(list) : k < l => at[k] < at[l]

\* C20: a run posts at most one delete task.  Once the service has listed
\* its branches, a task is posted exactly when one of them is absent from
\* the git remote, and its list is the branches that the service lists and
\* the remote lacks, in the order of the service's listing.
C20_OneTaskOfStaleBranches ==
    /\ Cardinality(Sent({"POST branch-delete-tasks"})) <= 1
    /\ \A i \in Sent({"POST branch-delete-tasks"}) :
          /\ requests[i].body # <<>>
          /\ IsStaleListOf(requests[i].body, branches, remoteBranches)
          /\ i > 1 /\ requests[i - 1] = Request("GET branches", "ok", <<>>)
    /\ (Ended /\ \E i \in Sent({"GET branches"}) : requests[i].res = "ok") =>
          (Sent({"POST branch-delete-tasks"}) # {} <=>
             RangeOf(branches) \ remoteBranches # {})

\* the service lists main, feature-a, feature-b, the remote holds main and
\* feature-a: one task with feature-b has been posted
C20_Witness ==
    /\ branches = <<"main", "feature-a", "feature-b">>
    /\ remoteBranches = {"main", "feature-a"}
    /\ pcS = "returned"
    /\ \E i \in Sent({"POST branch-delete-tasks"}) : requests[i].body = <<"feature-b">>

\* C23: the upsert of the repository bears a concurrent creator: when the
\* GET finds the repository absent and the POST that follows is answered
\* with a conflict (409), the upsert succeeds and Scan goes on to fetch the
\* flags; when the POST is answered with a service error (500), the upsert
\* returns the error and the run ends there.
C23_UpsertBearsConflict ==
    \A i \in Sent({"POST repository"}) :
        /\ i = 2
        /\ requests[1] = Request("GET repository", "notFound", <<>>)
        /\ requests[i].res = "conflict" =>
              (Len(requests) = i => pcS = "getFlags")
        /\ requests[i].res \in ServiceErrors =>
              /\ Len(requests) = i
              /\ pcS \in {"exit0", "fatal"}

\* a run whose POST of the repository met a conflict and that has sent the
\* branch afterwards
C23_Witness ==
    /\ \E i \in Sent({"POST repository"}) : requests[i].res = "conflict"
    /\ Sent({"PUT branch"}) # {}
    /\ pcS = "returned"

\* C25: the branch whose report the run has sent is never in the delete
\* task of the run, also when the listing of the git remote does not hold
\* it.
C25_SentBranchNotDeleted ==
    \A j \in Sent({"PUT branch"}) : \A i \in Sent({"POST branch-delete-tasks"}) :
        requests[j].body[1] \notin RangeOf(requests[i].body)

-----------------------------------------------------------------------------
(* Claims about the ld client (SpecPut) *)

\* C22: PutCodeReferenceBranch tells the outcome by the status of the
\* response: it returns no error when the service answers 200 and the error
\* BranchPutErr when the service answers 500.
C22_PutErrorByStatus ==
    (putErr # "none" /\ answer.kind = "response") =>
        /\ answer.status = 200 => putErr = "nil"
        /\ answer.status = 500 => putErr = "BranchPutErr"

-----------------------------------------------------------------------------
(* Claims about Alias.IsValid (SpecAlias) *)

\* the fields of the alias that belong to another variant than its type
ForeignFields ==
    (IF aliasSpec.Type # Literal /\ aliasSpec.Flags # "nil" THEN {"flags"} ELSE {})
    \cup (IF aliasSpec.Type # FilePattern /\ aliasSpec.Paths # "nil" THEN {"paths"} ELSE {})
    \cup (IF aliasSpec.Type # FilePattern /\ aliasSpec.Pattern # "nil" THEN {"pattern"} ELSE {})
    \cup (IF aliasSpec.Type # Command /\ aliasSpec.Command # "nil" THEN {"command"} ELSE {})
    \cup (IF aliasSpec.Type # Command /\ aliasSpec.Timeout # <<>> THEN {"timeout"} ELSE {})

\* C26: Alias.IsValid accepts an aliasSpec only if it has no field of another
\* variant; an aliasSpec of a valid type that has the fields of its own variant
\* right and sets flags without being literal, paths or pattern without
\* being filePattern, or command or timeout without being command, is
\* refused with an unexpected-field error that names such a field.
C26_NoForeignField ==
    aliasErr # "none" =>
        /\ aliasErr = "nil" => ForeignFields = {}
        /\ (AliasTypeIsValid(aliasSpec.Type) /\ ExpectedFieldsErr(aliasSpec) = "nil" /\ ForeignFields # {}) =>
              \E f \in ForeignFields : aliasErr = unexpectedFieldErr(aliasSpec.Type, f)

-----------------------------------------------------------------------------
(* Claims about truncateLine (SpecTruncate) *)

\* the longest prefix of s of at most n bytes that ends between two units
PrefixWithin(s, n) ==
    LET fits == { k \in 0..Len(s) : ByteLen(SubSeq(s, 1, k)) <= n }
        best == CHOOSE k \in fits : \A j \in fits : j <= k
    IN  SubSeq(s, 1, best)

\* C6: truncateLine is defined for every line; a line of at most 500 bytes
\* comes back unchanged, a longer one as its longest prefix of at most 500
\* bytes that ends on a character boundary, followed by the ellipsis.
C6_TruncatesAtByteLimit ==
    truncated.kind # "none" =>
        /\ truncated.kind = "ok"
        /\ truncated.text =
             IF ByteLen(line) <= maxLineCharCount THEN line
             ELSE Append(PrefixWithin(line, maxLineCharCount), Ellipsis)

=============================================================================
